---- MODULE Spec2Model ----
(***************************************************************************)
(* Model of server.py: a static file server built on the standard          *)
(* library's SimpleHTTPRequestHandler.  CORSHTTPRequestHandler overrides   *)
(* extensions_map, end_headers and adds do_OPTIONS; run_server changes to  *)
(* the root directory, binds the listener, prints the banner, opens the    *)
(* browser and serves until interrupted.  The inherited request handling   *)
(* (parse_request, send_head, translate_path, guess_type, send_error, ...) *)
(* is modelled as the handler class executes it.                           *)
(*                                                                         *)
(* Outside the model: request lines longer than 65536 bytes and header     *)
(* blocks the parser rejects (414, 431), symbolic links, and os.listdir or *)
(* os.fstat failing on a path that os.path.isdir or open just accepted.    *)
(* The Date, Content-Length and Last-Modified values are abstract tokens.  *)
(***************************************************************************)
EXTENDS Integers, Sequences, FiniteSets, TLC

\* ------------------------------------------------------------------------
\* Bounds
\* ------------------------------------------------------------------------

\* Longest directory prefix (".." and "web" segments) of a request path.
MaxDepth == 2

\* ------------------------------------------------------------------------
\* Names, paths and the filesystem
\* ------------------------------------------------------------------------

\* A path component: the part before the last dot and the extension
\* (posixpath.splitext of the component).
Name(stem, ext) == [stem |-> stem, ext |-> ext]

pardir == Name("..", "")
web == Name("web", "")
srv == Name("srv", "")
secret == Name("secret", "")
index_html == Name("index", ".html")
index_htm == Name("index", ".htm")

\* The extensions of CORSHTTPRequestHandler.extensions_map, '' excluded.
TableExts ==
    {".html", ".js", ".mjs", ".css", ".json", ".png", ".jpg", ".gif",
     ".svg", ".wav", ".mp3", ".wasm", ".epub", ".onnx"}

\* Extensions outside the table: one the mimetypes module knows, one nobody
\* knows, and an upper-case spelling of a table extension.
OtherExts == {".txt", ".zzz", ".HTML"}

\* Files kept in <root>/web: one per extension.
WebFiles ==
    {index_html} \cup {Name("a", e) : e \in (TableExts \ {".html"}) \cup OtherExts}

\* A file without extension, kept in <root>.
LICENSE == Name("LICENSE", "")

\* A name that is on disk nowhere.
missing == Name("missing", ".xyz")

\* Absolute filesystem paths are sequences of names; <<>> is "/".
RootDir == <<srv>>
WebDir == <<srv, web>>
OutsideFile == <<secret>>

DirPaths == {<<>>, RootDir, WebDir}
FilePaths ==
    {WebDir \o <<n>> : n \in WebFiles} \cup {RootDir \o <<LICENSE>>, OutsideFile}

\* The tree as it is when the server is installed.
FullTree == DirPaths \cup FilePaths

\* Files the environment creates and deletes while the server runs.
Volatile == {WebDir \o <<index_html>>}

IsPrefix(p, q) == Len(p) <= Len(q) /\ SubSeq(q, 1, Len(p)) = p

\* What the operating system finds at a path that may contain ".." words:
\* every component but the last must be an existing directory, ".." steps to
\* the parent ("/" is its own parent).  <<"none", <<>>>> when nothing is there.
RECURSIVE os_walk(_, _, _)
os_walk(tree, cur, words) ==
    IF words = <<>> THEN
        IF cur \in tree THEN <<"found", cur>> ELSE <<"none", <<>>>>
    ELSE IF ~(cur \in tree /\ cur \in DirPaths) THEN <<"none", <<>>>>
    ELSE IF Head(words) = pardir THEN
        os_walk(tree, IF cur = <<>> THEN <<>> ELSE SubSeq(cur, 1, Len(cur) - 1),
                Tail(words))
    ELSE os_walk(tree, Append(cur, Head(words)), Tail(words))

os_resolve(tree, path) == os_walk(tree, <<>>, path)

os_path_isdir(tree, path) ==
    LET r == os_resolve(tree, path) IN r[1] = "found" /\ r[2] \in DirPaths

os_path_isfile(tree, path) ==
    LET r == os_resolve(tree, path) IN r[1] = "found" /\ r[2] \in FilePaths

\* ------------------------------------------------------------------------
\* Requests
\* ------------------------------------------------------------------------

Commands == {"GET", "HEAD", "OPTIONS", "POST"}

\* The third word of the request line; "" stands for a two-word request line
\* (an HTTP/0.9 simple request), "FOO/1" for a word that is no HTTP version.
Versions == {"HTTP/1.0", "HTTP/1.1", "", "HTTP/2.0", "FOO/1"}

RECURSIVE SeqsUpTo(_, _)
SeqsUpTo(S, n) ==
    IF n = 0 THEN {<<>>}
    ELSE LET shorter == SeqsUpTo(S, n - 1) IN
         shorter \cup {Append(q, x) : q \in {r \in shorter : Len(r) = n - 1}, x \in S}

\* Request paths: an optional leading "/", up to MaxDepth directory words
\* (".." or "web"), an optional last word and an optional trailing "/".
\* The path without words is "/".
LastWords == WebFiles \cup {LICENSE, secret, missing}

RequestPaths ==
    {[abs |-> a, words |-> d, slash |-> s] :
        a \in BOOLEAN, d \in SeqsUpTo({pardir, web}, MaxDepth), s \in BOOLEAN}
    \cup
    {[abs |-> a, words |-> Append(d, l), slash |-> s] :
        a \in BOOLEAN, d \in SeqsUpTo({pardir, web}, MaxDepth),
        l \in LastWords, s \in BOOLEAN}

Paths == {p \in RequestPaths : p.words = <<>> => (p.abs /\ p.slash)}

\* ims: the request carries an If-Modified-Since date that is not before the
\* file's modification time, and no If-None-Match.
Requests ==
    [command : Commands, path : Paths, version : Versions, ims : BOOLEAN]

NoRequest ==
    [command |-> "", path |-> [abs |-> TRUE, words |-> <<>>, slash |-> TRUE],
     version |-> "", ims |-> FALSE]

\* ------------------------------------------------------------------------
\* Responses: the header buffer and the body
\* ------------------------------------------------------------------------

NoBody == [kind |-> "empty", of |-> <<>>, names |-> {}, code |-> 0]
FileBody(p) == [kind |-> "file", of |-> p, names |-> {}, code |-> 0]
ListingBody(p, ns) == [kind |-> "listing", of |-> p, names |-> ns, code |-> 0]
ErrorBody(c) == [kind |-> "error", of |-> <<>>, names |-> {}, code |-> c]

EmptyBuffer ==
    [statusLine |-> FALSE, code |-> 0, headers |-> <<>>, ended |-> FALSE]

NoResponse ==
    [statusLine |-> FALSE, code |-> 0, headers |-> <<>>, ended |-> FALSE,
     body |-> NoBody]

\* BaseHTTPRequestHandler.send_response_only: nothing is written for an
\* HTTP/0.9 request.
send_response_only(rv, buf, code) ==
    IF rv # "HTTP/0.9" THEN [buf EXCEPT !.statusLine = TRUE, !.code = code]
    ELSE buf

\* BaseHTTPRequestHandler.send_header
send_header(rv, buf, keyword, value) ==
    IF rv # "HTTP/0.9"
    THEN [buf EXCEPT !.headers = Append(@, <<keyword, value>>)]
    ELSE buf

\* BaseHTTPRequestHandler.send_response: status line, Server and Date.
send_response(rv, buf, code) ==
    send_header(rv,
        send_header(rv, send_response_only(rv, buf, code),
                    "Server", "SimpleHTTP"),
        "Date", "now")

\* BaseHTTPRequestHandler.end_headers: the blank line, then flush.
base_end_headers(rv, buf) ==
    IF rv # "HTTP/0.9" THEN [buf EXCEPT !.ended = TRUE] ELSE buf

\* end_headers as inherited, without the override's three send_header calls.
end_headers_inherited(rv, buf) == base_end_headers(rv, buf)

\* end_headers with the three headers put in front of the buffered ones.
end_headers_in_front(rv, buf) ==
    base_end_headers(rv,
        IF rv # "HTTP/0.9"
        THEN [buf EXCEPT !.headers =
                << <<"Access-Control-Allow-Origin", "*">>,
                   <<"Access-Control-Allow-Methods", "GET, POST, OPTIONS">>,
                   <<"Access-Control-Allow-Headers", "*">> >> \o @]
        ELSE buf)

\* CORSHTTPRequestHandler.end_headers
end_headers(rv, buf) ==
    base_end_headers(rv,
        send_header(rv,
            send_header(rv,
                send_header(rv, buf, "Access-Control-Allow-Origin", "*"),
                "Access-Control-Allow-Methods", "GET, POST, OPTIONS"),
            "Access-Control-Allow-Headers", "*"))

WithBody(buf, body) ==
    [statusLine |-> buf.statusLine, code |-> buf.code,
     headers |-> buf.headers, ended |-> buf.ended, body |-> body]

\* BaseHTTPRequestHandler.send_error, for the codes this server sends (all of
\* them carry a body); command is self.command at the time of the call.
send_error(rv, command, code) ==
    LET b1 == send_response(rv, EmptyBuffer, code)
        b2 == send_header(rv, b1, "Connection", "close")
        b3 == send_header(rv, b2, "Content-Type", "text/html;charset=utf-8")
        b4 == send_header(rv, b3, "Content-Length", "len(body)")
    IN  WithBody(end_headers(rv, b4),
                 IF command # "HEAD" THEN ErrorBody(code) ELSE NoBody)

\* ------------------------------------------------------------------------
\* MIME types
\* ------------------------------------------------------------------------

\* CORSHTTPRequestHandler.extensions_map as the class body builds it.
ExtensionsTable ==
    [e \in TableExts \cup {""} |->
        CASE e = "" -> "application/octet-stream"
          [] e = ".html" -> "text/html"
          [] e = ".js" -> "application/javascript"
          [] e = ".mjs" -> "application/javascript"
          [] e = ".css" -> "text/css"
          [] e = ".json" -> "application/json"
          [] e = ".png" -> "image/png"
          [] e = ".jpg" -> "image/jpeg"
          [] e = ".gif" -> "image/gif"
          [] e = ".svg" -> "image/svg+xml"
          [] e = ".wav" -> "audio/wav"
          [] e = ".mp3" -> "audio/mpeg"
          [] e = ".wasm" -> "application/wasm"
          [] e = ".epub" -> "application/epub+zip"
          [] e = ".onnx" -> "application/octet-stream"]

\* str.lower on the extensions of the model.
lower(ext) == IF ext = ".HTML" THEN ".html" ELSE ext

\* mimetypes.guess_type on an extension, "" for None: the interpreter's
\* default type map.
mimetypes_guess_type(ext) ==
    CASE lower(ext) = ".txt" -> "text/plain"
      [] lower(ext) \in {".js", ".mjs"} -> "text/javascript"
      [] lower(ext) = ".wav" -> "audio/x-wav"
      [] lower(ext) \in {".html", ".css", ".json", ".png", ".jpg", ".gif",
                         ".svg", ".mp3", ".wasm", ".epub"} ->
            ExtensionsTable[lower(ext)]
      [] OTHER -> ""

\* posixpath.splitext(path)[1] of a translated path.
splitext(path) ==
    IF path.slash \/ path.words = <<>> THEN ""
    ELSE path.words[Len(path.words)].ext

\* guess_type that never consults the handler's extensions_map, as when the
\* class attribute is not picked up.
guess_type_without_table(map, path) ==
    LET ext == splitext(path) IN
    IF mimetypes_guess_type(ext) # "" THEN mimetypes_guess_type(ext)
    ELSE "application/octet-stream"

\* SimpleHTTPRequestHandler.guess_type with the handler's extensions_map.
guess_type(map, path) ==
    LET ext == splitext(path) IN
    IF ext \in DOMAIN map THEN map[ext]
    ELSE IF lower(ext) \in DOMAIN map THEN map[lower(ext)]
    ELSE IF mimetypes_guess_type(ext) # "" THEN mimetypes_guess_type(ext)
    ELSE "application/octet-stream"

\* ------------------------------------------------------------------------
\* Path translation
\* ------------------------------------------------------------------------

\* posixpath.normpath on the words of a path: ".." removes the word before
\* it; at the top of an absolute path it is dropped, at the start of a
\* relative path (or after another "..") it is kept.
RECURSIVE normpath_comps(_, _, _)
normpath_comps(abs, comps, words) ==
    IF words = <<>> THEN comps
    ELSE LET comp == Head(words) IN
         IF comp # pardir
            \/ (~abs /\ comps = <<>>)
            \/ (comps # <<>> /\ comps[Len(comps)] = pardir)
         THEN normpath_comps(abs, Append(comps, comp), Tail(words))
         ELSE IF comps # <<>>
         THEN normpath_comps(abs, SubSeq(comps, 1, Len(comps) - 1), Tail(words))
         ELSE normpath_comps(abs, comps, Tail(words))

normpath(path) == normpath_comps(path.abs, <<>>, path.words)

\* The loop of translate_path without its test for os.pardir.
RECURSIVE join_words_keeping_pardir(_, _)
join_words_keeping_pardir(path, words) ==
    IF words = <<>> THEN path
    ELSE join_words_keeping_pardir(Append(path, Head(words)), Tail(words))

\* The loop of translate_path: words that are os.curdir or os.pardir are
\* ignored, the others are joined to the directory.
RECURSIVE join_words(_, _)
join_words(path, words) ==
    IF words = <<>> THEN path
    ELSE IF Head(words) = pardir THEN join_words(path, Tail(words))
    ELSE join_words(Append(path, Head(words)), Tail(words))

\* SimpleHTTPRequestHandler.translate_path with self.directory = directory.
translate_path(directory, path) ==
    [words |-> join_words(directory, normpath(path)), slash |-> path.slash]

\* ------------------------------------------------------------------------
\* The handler's methods.  Each returns the response it writes and the set
\* of paths it hands to the operating system (reads).
\* ------------------------------------------------------------------------

Result(response, f, reads) == [response |-> response, f |-> f, reads |-> reads]

\* SimpleHTTPRequestHandler.list_directory, after a successful os.listdir.
list_directory(rv, tree, path) ==
    LET dir == os_resolve(tree, path.words)[2]
        names == {n \in LastWords \cup {web, srv} : Append(dir, n) \in tree}
        b1 == send_response(rv, EmptyBuffer, 200)
        b2 == send_header(rv, b1, "Content-type", "text/html; charset=utf-8")
        b3 == send_header(rv, b2, "Content-Length", "len(encoded)")
    IN  Result(WithBody(end_headers(rv, b3), NoBody),
               ListingBody(dir, names), {path.words})

\* send_file_head with open() outside its try block: the OSError of a
\* missing file escapes the handler and nothing is written.
send_file_head_unguarded_open(rv, req, tree, map, path) ==
    LET ctype == guess_type(map, path) IN
    IF path.slash THEN
        Result(send_error(rv, req.command, 404), NoBody, {})
    ELSE IF ~os_path_isfile(tree, path.words) THEN
        Result(NoResponse, NoBody, {path.words})
    ELSE IF req.ims THEN
        Result(WithBody(end_headers(rv, send_response(rv, EmptyBuffer, 304)),
                        NoBody),
               NoBody, {path.words})
    ELSE
        LET b1 == send_response(rv, EmptyBuffer, 200)
            b2 == send_header(rv, b1, "Content-type", ctype)
            b3 == send_header(rv, b2, "Content-Length", "st_size")
            b4 == send_header(rv, b3, "Last-Modified", "st_mtime")
        IN  Result(WithBody(end_headers(rv, b4), NoBody),
                   FileBody(os_resolve(tree, path.words)[2]), {path.words})

\* The part of send_head that serves a file: content type, the trailing
\* slash check, open, the If-Modified-Since check and the 200 response.
send_file_head(rv, req, tree, map, path) ==
    LET ctype == guess_type(map, path) IN
    IF path.slash THEN
        Result(send_error(rv, req.command, 404), NoBody, {})
    ELSE IF ~os_path_isfile(tree, path.words) THEN
        Result(send_error(rv, req.command, 404), NoBody, {path.words})
    ELSE IF req.ims THEN
        Result(WithBody(end_headers(rv, send_response(rv, EmptyBuffer, 304)),
                        NoBody),
               NoBody, {path.words})
    ELSE
        LET b1 == send_response(rv, EmptyBuffer, 200)
            b2 == send_header(rv, b1, "Content-type", ctype)
            b3 == send_header(rv, b2, "Content-Length", "st_size")
            b4 == send_header(rv, b3, "Last-Modified", "st_mtime")
        IN  Result(WithBody(end_headers(rv, b4), NoBody),
                   FileBody(os_resolve(tree, path.words)[2]), {path.words})

\* SimpleHTTPRequestHandler.send_head
send_head(rv, req, tree, map, directory) ==
    LET path == translate_path(directory, req.path) IN
    IF os_path_isdir(tree, path.words) THEN
        IF ~req.path.slash THEN
            LET b1 == send_response(rv, EmptyBuffer, 301)
                b2 == send_header(rv, b1, "Location", "self.path/")
                b3 == send_header(rv, b2, "Content-Length", "0")
            IN  Result(WithBody(end_headers(rv, b3), NoBody), NoBody,
                       {path.words})
        ELSE
            LET html == Append(path.words, index_html)
                htm == Append(path.words, index_htm)
            IN  IF os_path_isfile(tree, html) THEN
                    LET r == send_file_head(rv, req, tree, map,
                                            [words |-> html, slash |-> FALSE])
                    IN  [r EXCEPT !.reads = @ \cup {path.words, html}]
                ELSE IF os_path_isfile(tree, htm) THEN
                    LET r == send_file_head(rv, req, tree, map,
                                            [words |-> htm, slash |-> FALSE])
                    IN  [r EXCEPT !.reads = @ \cup {path.words, html, htm}]
                ELSE
                    LET r == list_directory(rv, tree, path)
                    IN  [r EXCEPT !.reads = @ \cup {path.words, html, htm}]
    ELSE
        LET r == send_file_head(rv, req, tree, map, path)
        IN  [r EXCEPT !.reads = @ \cup {path.words}]

\* SimpleHTTPRequestHandler.do_GET: send_head, then copyfile.
do_GET(rv, req, tree, map, directory) ==
    LET r == send_head(rv, req, tree, map, directory) IN
    IF r.f # NoBody THEN Result([r.response EXCEPT !.body = r.f], NoBody, r.reads)
    ELSE Result(r.response, NoBody, r.reads)

\* SimpleHTTPRequestHandler.do_HEAD: send_head, then close.
do_HEAD(rv, req, tree, map, directory) ==
    LET r == send_head(rv, req, tree, map, directory) IN
    Result(r.response, NoBody, r.reads)

\* do_OPTIONS answering like HEAD: it looks the path up.
do_OPTIONS_like_HEAD(rv, req, tree, map, directory) ==
    do_HEAD(rv, req, tree, map, directory)

\* CORSHTTPRequestHandler.do_OPTIONS
do_OPTIONS(rv, req, tree, map, directory) ==
    Result(WithBody(end_headers(rv, send_response(rv, EmptyBuffer, 200)), NoBody),
           NoBody, {})

\* BaseHTTPRequestHandler.parse_request on the request line: the request
\* version in force, self.command, and the error response if it fails.
parse_request(req) ==
    IF req.version = "FOO/1" THEN
        [ok |-> FALSE, rv |-> "HTTP/0.9", command |-> "None",
         response |-> send_error("HTTP/0.9", "None", 400)]
    ELSE IF req.version = "HTTP/2.0" THEN
        [ok |-> FALSE, rv |-> "HTTP/0.9", command |-> "None",
         response |-> send_error("HTTP/0.9", "None", 505)]
    ELSE IF req.version = "" /\ req.command # "GET" THEN
        [ok |-> FALSE, rv |-> "HTTP/0.9", command |-> "None",
         response |-> send_error("HTTP/0.9", "None", 400)]
    ELSE
        [ok |-> TRUE,
         rv |-> IF req.version = "" THEN "HTTP/0.9" ELSE req.version,
         command |-> req.command, response |-> NoResponse]

\* BaseHTTPRequestHandler.handle_one_request: parse, then dispatch to
\* do_<command>, 501 when the handler has no such method.
handle_one_request(req, tree, map, directory) ==
    LET p == parse_request(req) IN
    IF ~p.ok THEN Result(p.response, NoBody, {})
    ELSE IF p.command = "GET" THEN do_GET(p.rv, req, tree, map, directory)
    ELSE IF p.command = "HEAD" THEN do_HEAD(p.rv, req, tree, map, directory)
    ELSE IF p.command = "OPTIONS" THEN do_OPTIONS(p.rv, req, tree, map, directory)
    ELSE Result(send_error(p.rv, p.command, 501), NoBody, {})

\* ------------------------------------------------------------------------
\* State
\* ------------------------------------------------------------------------

VARIABLES
    PORT,            \* module constant PORT
    DIRECTORY,       \* module constant DIRECTORY, the root as an absolute path
    extensions_map,  \* CORSHTTPRequestHandler.extensions_map
    fs,              \* the paths that exist on disk
    portFree,        \* whether the port can be bound when the server starts
    pc,              \* where run_server is
    bound,           \* the listening socket is bound
    stdout,          \* what run_server has printed
    browser,         \* the URLs handed to webbrowser.open
    exitStatus,      \* the process's exit status, -1 while it runs
    interruptedAt,   \* pc at the moment of the interrupt, "" if none came
    request,         \* the request of the connection being handled
    last,            \* the response written to that connection
    reads,           \* the paths the handler gave to the operating system
    served,          \* some request has been handled
    after404,        \* the response before this one was a 404
    repeating,       \* the request is the previous request, sent again
    repeatOf         \* the response the previous, identical request got

config == <<PORT, DIRECTORY, extensions_map>>

vars ==
    <<PORT, DIRECTORY, extensions_map, fs, portFree, pc, bound, stdout,
      browser, exitStatus, interruptedAt, request, last, reads, served,
      after404, repeating, repeatOf>>

url == <<"http://localhost:", PORT, "/web/">>

Init ==
    /\ PORT = 8090
    /\ DIRECTORY = RootDir
    /\ extensions_map = ExtensionsTable
    /\ fs = FullTree
    /\ portFree \in BOOLEAN
    /\ pc = "start"
    /\ bound = FALSE
    /\ stdout = <<>>
    /\ browser = <<>>
    /\ exitStatus = -1
    /\ interruptedAt = ""
    /\ request = NoRequest
    /\ last = NoResponse
    /\ reads = {}
    /\ served = FALSE
    /\ after404 = FALSE
    /\ repeating = FALSE
    /\ repeatOf = NoResponse

connection == <<request, last, reads, served, after404, repeating, repeatOf>>
process == <<pc, bound, stdout, browser, exitStatus, interruptedAt>>

\* ------------------------------------------------------------------------
\* run_server
\* ------------------------------------------------------------------------

\* os.chdir(DIRECTORY): FileNotFoundError, uncaught, when the directory is
\* gone.
Chdir ==
    /\ pc = "start"
    /\ IF os_path_isdir(fs, DIRECTORY)
       THEN pc' = "bind" /\ exitStatus' = exitStatus
       ELSE pc' = "exited" /\ exitStatus' = 1
    /\ UNCHANGED <<config, fs, portFree, bound, stdout, browser,
                   interruptedAt, connection>>

\* Bind with the OSError swallowed: run_server goes on without a listener.
Bind_ignoring_failure ==
    /\ pc = "bind"
    /\ pc' = "banner"
    /\ bound' = portFree
    /\ UNCHANGED <<config, fs, portFree, stdout, browser, exitStatus,
                   interruptedAt, connection>>

\* socketserver.TCPServer(("", PORT), handler): OSError, uncaught, when the
\* port cannot be bound.
Bind ==
    /\ pc = "bind"
    /\ IF portFree
       THEN pc' = "banner" /\ bound' = TRUE /\ exitStatus' = exitStatus
       ELSE pc' = "exited" /\ bound' = FALSE /\ exitStatus' = 1
    /\ UNCHANGED <<config, fs, portFree, stdout, browser, interruptedAt,
                   connection>>

\* print(banner)
PrintBanner ==
    /\ pc = "banner"
    /\ stdout' = Append(stdout, <<"banner", url>>)
    /\ pc' = "browser"
    /\ UNCHANGED <<config, fs, portFree, bound, browser, exitStatus,
                   interruptedAt, connection>>

\* webbrowser.open(url), then httpd.serve_forever() is entered.
OpenBrowser ==
    /\ pc = "browser"
    /\ browser' = Append(browser, url)
    /\ pc' = "serving"
    /\ UNCHANGED <<config, fs, portFree, bound, stdout, exitStatus,
                   interruptedAt, connection>>

\* serve_forever accepts a connection and reads its request.
Receive ==
    /\ pc = "serving"
    /\ \E req \in Requests : request' = req
    /\ last' = NoResponse
    /\ reads' = {}
    /\ repeating' = FALSE
    /\ repeatOf' = NoResponse
    /\ pc' = "received"
    /\ UNCHANGED <<config, fs, portFree, bound, stdout, browser, exitStatus,
                   interruptedAt, served, after404>>

\* A handler whose header buffer outlives the request: the headers of the
\* previous response are still in it.
Handled_with_stale_buffer ==
    LET r == handle_one_request(request, fs, extensions_map, DIRECTORY) IN
    [r EXCEPT !.response.headers = repeatOf.headers \o @]

\* What the handler does with the request at hand.
Handled == handle_one_request(request, fs, extensions_map, DIRECTORY)

\* The handler object is constructed for the connection and handles its one
\* request (protocol_version is HTTP/1.0: the connection is never kept).
HandleRequest ==
    /\ pc = "received"
    /\ last' = Handled.response
    /\ reads' = Handled.reads
    /\ served' = TRUE
    /\ pc' = "responded"
    /\ UNCHANGED <<config, fs, portFree, bound, stdout, browser, exitStatus,
                   interruptedAt, request, after404, repeating, repeatOf>>

\* The connection is shut down; serve_forever waits for the next one.
Finish ==
    /\ pc = "responded"
    /\ after404' = (last.code = 404 \/ last.body = ErrorBody(404))
    /\ request' = NoRequest
    /\ last' = NoResponse
    /\ reads' = {}
    /\ repeating' = FALSE
    /\ repeatOf' = NoResponse
    /\ pc' = "serving"
    /\ UNCHANGED <<config, fs, portFree, bound, stdout, browser, exitStatus,
                   interruptedAt, served>>

\* The connection is shut down and the next connection carries the same
\* request again.
Repeat ==
    /\ pc = "responded"
    /\ after404' = (last.code = 404 \/ last.body = ErrorBody(404))
    /\ repeating' = TRUE
    /\ repeatOf' = last
    /\ last' = NoResponse
    /\ reads' = {}
    /\ pc' = "received"
    /\ UNCHANGED <<config, fs, portFree, bound, stdout, browser, exitStatus,
                   interruptedAt, request, served>>

\* SIGINT raises KeyboardInterrupt in the main thread.  Inside
\* serve_forever it is caught by the except clause, which prints the
\* farewell; the with block then closes the socket and run_server returns.
\* Anywhere else it is not caught: the with block (if entered) closes the
\* socket and the interpreter dies of the interrupt.  The connection being
\* handled, if any, is dropped.
Interrupt ==
    /\ pc # "exited"
    /\ interruptedAt' = pc
    /\ IF pc \in {"serving", "received", "responded"}
       THEN stdout' = Append(stdout, <<"farewell", <<>>>>) /\ exitStatus' = 0
       ELSE stdout' = stdout /\ exitStatus' = 130
    /\ bound' = FALSE
    /\ pc' = "exited"
    /\ request' = NoRequest
    /\ last' = NoResponse
    /\ reads' = {}
    /\ repeating' = FALSE
    /\ repeatOf' = NoResponse
    /\ UNCHANGED <<config, fs, portFree, browser, served, after404>>

\* ------------------------------------------------------------------------
\* The environment: other processes change the files
\* ------------------------------------------------------------------------

EnvEnabled == pc \in {"start", "serving"}

Unlink(p) ==
    /\ EnvEnabled
    /\ p \in fs
    /\ fs' = fs \ {p}
    /\ UNCHANGED <<config, portFree, process, connection>>

Create(p) ==
    /\ EnvEnabled
    /\ p \notin fs
    /\ SubSeq(p, 1, Len(p) - 1) \in fs
    /\ fs' = fs \cup {p}
    /\ UNCHANGED <<config, portFree, process, connection>>

RemoveRoot ==
    /\ EnvEnabled
    /\ RootDir \in fs
    /\ fs' = {p \in fs : ~IsPrefix(RootDir, p)}
    /\ UNCHANGED <<config, portFree, process, connection>>

Next ==
    \/ Chdir
    \/ Bind
    \/ PrintBanner
    \/ OpenBrowser
    \/ Receive
    \/ HandleRequest
    \/ Finish
    \/ Repeat
    \/ Interrupt
    \/ \E p \in Volatile : Unlink(p)
    \/ \E p \in Volatile : Create(p)
    \/ RemoveRoot

Spec == Init /\ [][Next]_vars

TypeOK ==
    /\ pc \in {"start", "bind", "banner", "browser", "serving", "received",
               "responded", "exited"}
    /\ fs \subseteq FullTree
    /\ request \in Requests \cup {NoRequest}

\* ------------------------------------------------------------------------
\* Reading a request and a response
\* ------------------------------------------------------------------------

\* The request line carries an HTTP/1.x version.
IsHTTP1 == request.version \in {"HTTP/1.0", "HTTP/1.1"}

\* Header names are case-insensitive: the handler writes Content-type in a
\* 200 response and Content-Type in an error response.
CanonicalName(k) == IF k = "Content-type" THEN "Content-Type" ELSE k

HeaderIndex(resp, k) ==
    {i \in DOMAIN resp.headers : CanonicalName(resp.headers[i][1]) = k}

HeaderValues(resp, k) == {resp.headers[i][2] : i \in HeaderIndex(resp, k)}

CORSHeaders ==
    << <<"Access-Control-Allow-Origin", "*">>,
       <<"Access-Control-Allow-Methods", "GET, POST, OPTIONS">>,
       <<"Access-Control-Allow-Headers", "*">> >>

HasCORS(resp) ==
    \A j \in 1..3 : \E i \in DOMAIN resp.headers : resp.headers[i] = CORSHeaders[j]

OtherHeaders == {"Content-Type", "Content-Length", "Last-Modified", "Location"}

\* ------------------------------------------------------------------------
\* C1
\* ------------------------------------------------------------------------

\* C1 as stated: every response the server sends, whatever the method, path
\* or status, carries the three CORS headers.
C1_EveryResponseHasCORS == pc = "responded" => HasCORS(last)

\* C1 amended: every response that has a header block carries the three CORS
\* headers, and the responses that have one are exactly those to a request
\* line with an HTTP/1.x version; a response sent in HTTP/0.9 mode (two-word
\* request line, version 2.0 or later) has no status line and no header.
C1_HeaderBlockHasCORS ==
    pc = "responded" =>
        /\ last.ended <=> IsHTTP1
        /\ last.ended => last.statusLine /\ HasCORS(last)
        /\ ~last.ended => ~last.statusLine /\ last.headers = <<>>

\* An error response (404) to a GET has been sent with the three headers.
C1_Witness ==
    /\ pc = "responded"
    /\ request.command = "GET"
    /\ last.statusLine /\ last.code = 404
    /\ HasCORS(last)

\* ------------------------------------------------------------------------
\* C9
\* ------------------------------------------------------------------------

\* C9 as stated: in every response the three CORS headers precede the
\* handler's other headers (Content-Type, Content-Length, Last-Modified,
\* Location) in the header block.
C9_CORSBeforeOtherHeaders ==
    (pc = "responded" /\ last.ended) =>
        \A k \in OtherHeaders : \A i \in HeaderIndex(last, k) :
            \A j \in DOMAIN last.headers :
                last.headers[j] \in {CORSHeaders[n] : n \in 1..3} => j < i

\* C9 amended: in every response with a header block the three CORS headers
\* are the last three headers, in the order Origin, Methods, Headers: they
\* are written when the block is ended, after every other header.
C9_CORSAfterOtherHeaders ==
    (pc = "responded" /\ last.ended) =>
        LET n == Len(last.headers) IN
        /\ n >= 3
        /\ SubSeq(last.headers, n - 2, n) = CORSHeaders
        /\ \A k \in OtherHeaders : \A i \in HeaderIndex(last, k) : i < n - 2

\* A file has been served: Content-type, Content-Length and Last-Modified sit
\* in front of the three CORS headers.
C9_Witness ==
    /\ pc = "responded"
    /\ last.ended /\ last.code = 200 /\ last.body.kind = "file"
    /\ HeaderIndex(last, "Content-Type") # {}
    /\ HeaderIndex(last, "Last-Modified") # {}
    /\ SubSeq(last.headers, Len(last.headers) - 2, Len(last.headers)) = CORSHeaders

\* ------------------------------------------------------------------------
\* C2
\* ------------------------------------------------------------------------

\* C2: an OPTIONS request (request line with an HTTP/1.x version) to any
\* path gets status 200, an empty body and the three CORS headers, and the
\* handler gives no path to the operating system, whatever is on disk.
C2_OptionsPreflight ==
    (pc = "responded" /\ request.command = "OPTIONS" /\ IsHTTP1) =>
        /\ last.statusLine /\ last.code = 200
        /\ last.body = NoBody
        /\ HasCORS(last)
        /\ reads = {}

\* An OPTIONS request for a path with a ".." segment has been answered while
\* the root directory does not exist.
C2_Witness ==
    /\ pc = "responded"
    /\ request.command = "OPTIONS" /\ IsHTTP1
    /\ \E i \in DOMAIN request.path.words : request.path.words[i] = pardir
    /\ RootDir \notin fs
    /\ last.code = 200

\* ------------------------------------------------------------------------
\* C3, C4
\* ------------------------------------------------------------------------

\* The extension table of the specification, section 6.
SpecMimeTable ==
    [e \in TableExts |->
        CASE e = ".html" -> "text/html"
          [] e \in {".js", ".mjs"} -> "application/javascript"
          [] e = ".css" -> "text/css"
          [] e = ".json" -> "application/json"
          [] e = ".png" -> "image/png"
          [] e = ".jpg" -> "image/jpeg"
          [] e = ".gif" -> "image/gif"
          [] e = ".svg" -> "image/svg+xml"
          [] e = ".wav" -> "audio/wav"
          [] e = ".mp3" -> "audio/mpeg"
          [] e = ".wasm" -> "application/wasm"
          [] e = ".epub" -> "application/epub+zip"
          [] e = ".onnx" -> "application/octet-stream"]

PlainGet ==
    /\ pc = "responded"
    /\ request.command = "GET" /\ IsHTTP1 /\ ~request.ims

\* The request path is /web/<name> and that file is on disk.
NamesWebFile ==
    /\ request.path.abs /\ ~request.path.slash
    /\ Len(request.path.words) = 2 /\ request.path.words[1] = web
    /\ RootDir \o request.path.words \in fs \cap FilePaths

ServedExt == last.body.of[Len(last.body.of)].ext

\* C3: a GET (HTTP/1.x, unconditional) of an existing file whose name ends in
\* an extension E of the table is answered 200 with that file and with a
\* Content-Type equal to the specification's value for E.
C3_TableContentType ==
    PlainGet =>
        /\ NamesWebFile => last.body = FileBody(RootDir \o request.path.words)
        /\ (last.body.kind = "file" /\ ServedExt \in TableExts) =>
              /\ last.statusLine /\ last.code = 200
              /\ HeaderValues(last, "Content-Type") = {SpecMimeTable[ServedExt]}

\* /web/a.js has been served as application/javascript, the table's value,
\* not the text/javascript of the mimetypes module.
C3_Witness ==
    /\ PlainGet /\ NamesWebFile
    /\ request.path.words[2] = Name("a", ".js")
    /\ last.code = 200
    /\ HeaderValues(last, "Content-Type") = {"application/javascript"}

\* C4 as stated: a GET of an existing file whose extension is not in the
\* table (in any letter case), or that has no extension, is answered 200 with
\* a Content-Length and Content-Type application/octet-stream.
C4_UnknownIsOctetStream ==
    (PlainGet /\ last.body.kind = "file" /\ lower(ServedExt) \notin TableExts) =>
        /\ last.statusLine /\ last.code = 200
        /\ HeaderIndex(last, "Content-Length") # {}
        /\ HeaderValues(last, "Content-Type") = {"application/octet-stream"}

\* ------------------------------------------------------------------------
\* C5
\* ------------------------------------------------------------------------

\* Nothing is on disk where the request path leads under the root.
NotOnDisk ==
    os_resolve(fs, translate_path(DIRECTORY, request.path).words)[1] = "none"

\* The response is the 404 error: on the status line, or for an HTTP/0.9
\* simple request (which gets no status line) in the error page.
Is404(resp) ==
    IF IsHTTP1 THEN resp.statusLine /\ resp.code = 404
    ELSE resp.body = ErrorBody(404)

Dispatched == IsHTTP1 \/ (request.version = "" /\ request.command = "GET")

\* C5: a GET or HEAD for a path that is not on disk under the root is
\* answered 404; the listener stays bound and the process running, the
\* serving loop goes on to the next connection (unless an interrupt ends the
\* server), and the next request is answered as it would be otherwise.
C5_MissingIs404AndServerGoesOn ==
    /\ [](  (pc = "responded" /\ request.command \in {"GET", "HEAD"}
               /\ Dispatched /\ NotOnDisk)
            => (Is404(last) /\ bound /\ exitStatus = -1))
    /\ [][ (pc = "responded" /\ Is404(last)) =>
              \/ (pc' \in {"serving", "received"} /\ bound' /\ exitStatus' = -1)
              \/ interruptedAt' # "" ]_vars
    /\ [](  (pc = "responded" /\ after404)
            => ( /\ last = handle_one_request(request, fs, extensions_map,
                                              DIRECTORY).response
                 /\ bound /\ exitStatus = -1 ))

\* A request was answered 404 and the next one, a GET, has been answered
\* with a file.
C5_Witness ==
    /\ pc = "responded"
    /\ after404
    /\ request.command = "GET"
    /\ last.statusLine /\ last.code = 200 /\ last.body.kind = "file"
    /\ bound

\* ------------------------------------------------------------------------
\* C6
\* ------------------------------------------------------------------------

UnderRoot(p) == IsPrefix(DIRECTORY, p)

\* C6: whatever ".." segments the request path has, every path the handler
\* gives to the operating system leads under the root (or nowhere), and the
\* body of the response is a file or a listing from under the root.
C6_ServedFromUnderRoot ==
    pc = "responded" =>
        /\ \A p \in reads :
              os_resolve(fs, p)[1] = "found" => UnderRoot(os_resolve(fs, p)[2])
        /\ last.body.kind \in {"file", "listing"} => UnderRoot(last.body.of)

\* A GET whose path has a ".." segment has been answered with a file.
C6_Witness ==
    /\ pc = "responded"
    /\ request.command = "GET"
    /\ \E i \in DOMAIN request.path.words : request.path.words[i] = pardir
    /\ last.body.kind = "file"
    /\ UnderRoot(last.body.of)

\* ------------------------------------------------------------------------
\* C7
\* ------------------------------------------------------------------------

\* C7 as stated: an interrupt at any point after the listener is bound makes
\* the server unbind the socket, print the farewell and exit with status 0.
C7_InterruptAfterBindIsGraceful ==
    (pc = "exited"
        /\ interruptedAt \in {"banner", "browser", "serving", "received",
                              "responded"}) =>
        /\ ~bound
        /\ exitStatus = 0
        /\ \E i \in DOMAIN stdout : stdout[i][1] = "farewell"

\* ------------------------------------------------------------------------
\* C8
\* ------------------------------------------------------------------------

\* C8: when the bind fails the process ends with a non-zero status, the
\* browser is never launched and no request is served; the browser is
\* launched at most once, only after a successful bind, with the URL
\* http://localhost:8090/web/, and it has been launched once when serving
\* starts.
C8_BindFailureAndBrowser ==
    /\ [][ (pc = "bind" /\ ~portFree /\ interruptedAt' = "") =>
              (pc' = "exited" /\ exitStatus' \notin {0, -1} /\ ~bound') ]_vars
    /\ [](~portFree => (browser = <<>> /\ ~served /\ ~bound))
    /\ [](Len(browser) <= 1)
    /\ [](browser # <<>> =>
            (portFree /\ browser = << <<"http://localhost:", 8090, "/web/">> >>
               /\ pc \in {"serving", "received", "responded", "exited"}))
    /\ [](pc \in {"serving", "received", "responded"} => Len(browser) = 1)
    /\ [][ browser' # browser => bound ]_vars

\* The directory was there, the port was taken: the process has ended with
\* status 1 and no browser.
C8_Witness ==
    /\ ~portFree
    /\ pc = "exited" /\ interruptedAt = "" /\ exitStatus = 1
    /\ RootDir \in fs
    /\ browser = <<>>

\* ------------------------------------------------------------------------
\* C10
\* ------------------------------------------------------------------------

====
